---- MODULE Spec2Model ----
(***************************************************************************)
(* Beacon verification of drand-client-rs (src/src/verify.rs).              *)
(*                                                                         *)
(* The verifier is a pure function of (scheme, public key, beacon).  The   *)
(* model draws the arguments of one call in Init and lets one action per   *)
(* public entry point (verify_beacon, verify_on_g1, verify_on_g2) run the  *)
(* call and record its result together with the checks it evaluated.       *)
(*                                                                         *)
(* The cryptographic primitives come from the sha2 and bls12_381 crates.   *)
(* They are modelled by small stand-ins with the same interface:           *)
(*   - byte strings are sequences over 0..255 with their real lengths      *)
(*     (48-byte G1, 96-byte G2, 32-byte digest);                           *)
(*   - G1, G2 and Gt are copies of the additive group Z_r, r prime, with   *)
(*     generator 1 and pairing e(a, b) = a * b mod r (bilinear and         *)
(*     non-degenerate);                                                    *)
(*   - a compressed point is a flag byte (compression, infinity, sign)     *)
(*     followed by the big-endian x coordinate, as in the zcash encoding;  *)
(*   - SHA-256 and hash_to_curve are deterministic mixing functions that   *)
(*     have no collision on the inputs the model draws (NoCollision).      *)
(*                                                                         *)
(* Three further specifications share the module: SpecDeserialize          *)
(* (impl Deserialize for SchemeID), SpecParallel (verify_beacon called     *)
(* from several threads whose steps interleave) and SpecFetch              *)
(* (HttpTransport::fetch of src/src/http.rs).                              *)
(***************************************************************************)
EXTENDS Integers, Sequences, FiniteSets, TLC

VARIABLES
    pc,                     \* "ready": arguments chosen, "done": call returned
    fn,                     \* the entry point that is called
    scheme_id,              \* verify_beacon: scheme_id
    public_key,             \* public_key: &[u8]
    beacon,                 \* verify_beacon: beacon
    message,                \* verify_on_g1 / verify_on_g2: message
    signature,              \* verify_on_g1 / verify_on_g2: signature
    domain_separation_tag,  \* verify_on_g1 / verify_on_g2: domain_separation_tag
    result,                 \* "Ok" or the VerificationError returned
    steps,                  \* the checks the call evaluated, in order
    dispatch,               \* verify_beacon: the pairing check it called, if any
    input,                  \* SchemeID::deserialize: the value the deserializer holds
    deserialized,           \* SchemeID::deserialize: the Result returned
    calls,                  \* parallel calls: the arguments each thread borrows
    thread,                 \* parallel calls: position and result of each thread
    derived,                \* parallel calls: the derived message of each call
    url,                    \* HttpTransport::fetch: url
    network,                \* HttpTransport::fetch: the outcomes of successive requests
    requests,               \* HttpTransport::fetch: the requests sent so far
    fetched                 \* HttpTransport::fetch: the Result returned

verify_vars == <<scheme_id, public_key, beacon, message, signature,
                 domain_separation_tag, result, steps, dispatch>>
deserialize_vars == <<input, deserialized>>
parallel_vars == <<calls, thread, derived>>
fetch_vars == <<url, network, requests, fetched>>

vars == <<pc, fn, verify_vars, deserialize_vars, parallel_vars, fetch_vars>>

----------------------------------------------------------------------------
(* Bounds of the model *)

MaxRound == 2       \* round numbers 1..MaxRound
MaxSecretKey == 2   \* networks: group secret keys 1..MaxSecretKey
MaxPrev == 1        \* distinct non-empty previous signatures

----------------------------------------------------------------------------
(* Byte strings *)

Byte == 0..255

Zeros(n) == [i \in 1..n |-> 0]

\* the k-byte big-endian encoding of n (n below 2^31 in the model)
BigEndian(n, k) ==
    [i \in 1..k |->
        CASE k - i = 0 -> n % 256
          [] k - i = 1 -> (n \div 256) % 256
          [] k - i = 2 -> (n \div 65536) % 256
          [] k - i = 3 -> (n \div 16777216) % 256
          [] OTHER -> 0]

\* u64::to_be_bytes
to_be_bytes(n) == BigEndian(n, 8)

\* a value mixed into the running value h
Step(h, v, mult, m) == ((((h + v) % m) + 1) * (h + mult)) % m

\* a mixing function of every byte and of the length of `bytes`: the bytes
\* from position i on are mixed into h (which is never negative), eight at a
\* time while eight are left
RECURSIVE AbsorbFrom(_, _, _, _, _)
AbsorbFrom(h, bytes, i, mult, m) ==
    IF h < 0 \/ i > Len(bytes) THEN h
    ELSE IF i + 7 <= Len(bytes)
    THEN AbsorbFrom(
            Step(h, bytes[i] * 1009 + bytes[i + 1] * 2003 + bytes[i + 2] * 3001
                    + bytes[i + 3] * 4001 + bytes[i + 4] * 5003 + bytes[i + 5] * 6007
                    + bytes[i + 6] * 7001 + bytes[i + 7] * 8009, mult, m),
            bytes, i + 8, mult, m)
    ELSE AbsorbFrom(Step(h, bytes[i], mult, m), bytes, i + 1, mult, m)

Absorb(seed, mult, m, bytes) == AbsorbFrom(seed, bytes, 1, mult, m)

DIGEST_LEN == 32

\* the bytes of a digest after the first two
DigestTail == [i \in 1..(DIGEST_LEN - 2) |-> (i * 37) % 256]

\* Sha256::digest(..).to_vec(): any byte string to a 32-byte digest
Sha256(bytes) ==
    LET h == Absorb(5381, 33, 32713, bytes)
    IN  <<h \div 256, h % 256>> \o DigestTail

----------------------------------------------------------------------------
(* The pairing groups *)

GroupOrder == 32749          \* prime order r of G1, G2 and Gt
G1_COMPRESSED_SIZE == 48     \* &[u8; 48]
G2_COMPRESSED_SIZE == 96     \* &[u8; 96]

Identity == 0                \* G1Affine::identity(), G2Affine::identity()
Generator == 1               \* G1Affine::generator(), G2Affine::generator()
GtIdentity == 0              \* Gt::identity()

NegForgotten(p) == p

Neg(p) == (GroupOrder - p) % GroupOrder
Mul(k, p) == (k * p) % GroupOrder

\* to_compressed: flag byte, then the x coordinate big-endian
Compress(p, size) ==
    IF p = Identity THEN <<192>> \o Zeros(size - 1)
    ELSE LET x    == IF 2 * p > GroupOrder THEN GroupOrder - p ELSE p
             sign == IF 2 * p > GroupOrder THEN 32 ELSE 0
         IN  <<128 + sign>> \o BigEndian(x, size - 1)

\* the integer a big-endian byte string encodes; -1 when it is 2^24 or more,
\* which is beyond the modulus of the coordinate field
FromBigEndian(bytes) ==
    LET n == Len(bytes)
    IN  IF \E i \in 1..(n - 3) : bytes[i] # 0 THEN -1
        ELSE bytes[n - 2] * 65536 + bytes[n - 1] * 256 + bytes[n]

\* the compression flag of the first byte left unchecked
from_compressed_flag_unchecked(bytes) ==
    LET b0       == bytes[1]
        infinity == (b0 \div 64) % 2 = 1
        sort     == (b0 \div 32) % 2 = 1
        x        == FromBigEndian([bytes EXCEPT ![1] = b0 % 32])
    IN  IF infinity /\ ~sort /\ x = 0
        THEN [is_some |-> TRUE, value |-> Identity]
        ELSE IF ~infinity /\ x >= 1 /\ 2 * x < GroupOrder
        THEN [is_some |-> TRUE, value |-> IF sort THEN GroupOrder - x ELSE x]
        ELSE [is_some |-> FALSE, value |-> Identity]

\* from_compressed: CtOption of a point; None for an encoding that is not
\* canonical, whose x is no coordinate of a point, or that lacks the
\* compression flag
from_compressed(bytes) ==
    LET b0          == bytes[1]
        compression == (b0 \div 128) % 2 = 1
        infinity    == (b0 \div 64) % 2 = 1
        sort        == (b0 \div 32) % 2 = 1
        x           == FromBigEndian([bytes EXCEPT ![1] = b0 % 32])
    IN  IF compression /\ infinity /\ ~sort /\ x = 0
        THEN [is_some |-> TRUE, value |-> Identity]
        ELSE IF compression /\ ~infinity /\ x >= 1 /\ 2 * x < GroupOrder
        THEN [is_some |-> TRUE, value |-> IF sort THEN GroupOrder - x ELSE x]
        ELSE [is_some |-> FALSE, value |-> Identity]

try_into_prefix(bytes, size) == Len(bytes) >= size

\* <&[u8; N]>::try_from(slice): Ok exactly for a slice of N bytes
try_into(bytes, size) == Len(bytes) = size

unwrap_or(opt, default) == IF opt.is_some THEN opt.value ELSE default

is_on_curve(p) == p \in 0..(GroupOrder - 1)

is_identity_never(p) == FALSE

is_identity(p) == p = Identity

DST_G1 == "BLS_SIG_BLS12381G1_XMD:SHA-256_SSWU_RO_NUL_"
DST_G2 == "BLS_SIG_BLS12381G2_XMD:SHA-256_SSWU_RO_NUL_"

\* str::as_bytes for the two tags
as_bytes(dst) ==
    IF dst = DST_G1
    THEN <<66, 76, 83, 95, 83, 73, 71, 95, 66, 76, 83, 49, 50, 51, 56, 49, 71,
           49, 95, 88, 77, 68, 58, 83, 72, 65, 45, 50, 53, 54, 95, 83, 83, 87,
           85, 95, 82, 79, 95, 78, 85, 76, 95>>
    ELSE <<66, 76, 83, 95, 83, 73, 71, 95, 66, 76, 83, 49, 50, 51, 56, 49, 71,
           50, 95, 88, 77, 68, 58, 83, 72, 65, 45, 50, 53, 54, 95, 83, 83, 87,
           85, 95, 82, 79, 95, 78, 85, 76, 95>>

\* <G1Projective as HashToCurve<ExpandMsgXmd<Sha256>>>::hash_to_curve:
\* a point of G1 other than the identity
hash_to_curve_g1(msg, dst_bytes) ==
    1 + (Absorb(17, 131, 32719, dst_bytes \o msg) % (GroupOrder - 1))

\* <G2Projective as HashToCurve<ExpandMsgXmd<Sha256>>>::hash_to_curve
hash_to_curve_g2(msg, dst_bytes) ==
    1 + (Absorb(23, 137, 32717, dst_bytes \o msg) % (GroupOrder - 1))

\* the Miller loop over the first pair alone
pairing_product_first_pair(a1, b1, a2, b2) == (a1 * b1) % GroupOrder

\* multi_miller_loop(&[(a1, b1), (a2, b2)]).final_exponentiation():
\* e(a1, b1) * e(a2, b2) in Gt
pairing_product(a1, b1, a2, b2) ==
    (((a1 * b1) % GroupOrder) + ((a2 * b2) % GroupOrder)) % GroupOrder

----------------------------------------------------------------------------
(* src/src/verify.rs *)

SchemeID == {"PedersenBlsChained", "PedersenBlsUnchained", "UnchainedOnG1",
             "UnchainedOnG1RFC9380"}

VerificationError == {"ChainedBeaconNeedsPreviousSignature", "InvalidSignatureLength",
                      "InvalidPublicKey", "EmptyMessage",
                      "SignatureFailedVerification", "InvalidRandomness"}

Ok(v) == [is_ok |-> TRUE, value |-> v, err |-> "none"]
Err(e) == [is_ok |-> FALSE, value |-> <<>>, err |-> e]

\* the outcome of a pairing check: its result and the checks it evaluated
Return(r, trace) == [result |-> r, steps |-> trace]

\* the variant kept in src/src/scheme.rs, which rejects a previous signature
unchained_beacon_message_strict(b) ==
    IF Len(b.previous_signature) > 0
    THEN Err("UnchainedBeaconHasPreviousSignature")
    ELSE Ok(Sha256(to_be_bytes(b.round_number)))

\* the round bytes handed on without the digest
unchained_beacon_message_unhashed(b) ==
    LET round_bytes == to_be_bytes(b.round_number)
    IN  Ok(round_bytes)

unchained_beacon_message(b) ==
    LET round_bytes == to_be_bytes(b.round_number)
    IN  Ok(Sha256(round_bytes))

chained_beacon_message_unchecked(b) ==
    Ok(Sha256(b.previous_signature \o to_be_bytes(b.round_number)))

\* the round number cut to its lowest byte before it is encoded
chained_beacon_message_round_truncated(b) ==
    IF b.previous_signature = <<>>
    THEN Err("ChainedBeaconNeedsPreviousSignature")
    ELSE Ok(Sha256(b.previous_signature \o to_be_bytes(b.round_number % 256)))

chained_beacon_message(b) ==
    IF b.previous_signature = <<>>
    THEN Err("ChainedBeaconNeedsPreviousSignature")
    ELSE LET msg == b.previous_signature \o to_be_bytes(b.round_number)
         IN  Ok(Sha256(msg))

\* the two length checks in the other order
verify_on_g2_signature_length_first(pk, msg, sig, dst) ==
    IF ~try_into(sig, G2_COMPRESSED_SIZE)
    THEN Return("InvalidSignatureLength", <<"sig_len">>)
    ELSE IF ~try_into(pk, G1_COMPRESSED_SIZE)
    THEN Return("InvalidPublicKey", <<"sig_len", "pk_len">>)
    ELSE
    LET p == unwrap_or(from_compressed(pk), Identity)
        q == unwrap_or(from_compressed(sig), Identity)
        m == hash_to_curve_g2(msg, as_bytes(dst))
        exp == pairing_product(Neg(p), m, Generator, q)
        checked == <<"sig_len", "pk_len", "decompress", "on_curve", "not_identity",
                     "msg_nonempty", "sig_nonempty", "hash_to_curve", "pairing">>
    IN  IF ~is_on_curve(p) THEN Return("InvalidPublicKey", SubSeq(checked, 1, 4))
        ELSE IF is_identity(p) THEN Return("InvalidPublicKey", SubSeq(checked, 1, 5))
        ELSE IF msg = <<>> THEN Return("EmptyMessage", SubSeq(checked, 1, 6))
        ELSE IF sig = <<>> THEN Return("InvalidSignatureLength", SubSeq(checked, 1, 7))
        ELSE IF exp # GtIdentity THEN Return("SignatureFailedVerification", checked)
        ELSE Return("Ok", checked)

\* verify a signature where the public key is on g1 and the signature is on g2
verify_on_g2(pk, msg, sig, dst) ==
    IF ~try_into(pk, G1_COMPRESSED_SIZE)
    THEN Return("InvalidPublicKey", <<"pk_len">>)
    ELSE IF ~try_into(sig, G2_COMPRESSED_SIZE)
    THEN Return("InvalidSignatureLength", <<"pk_len", "sig_len">>)
    ELSE
    LET p == unwrap_or(from_compressed(pk), Identity)
        q == unwrap_or(from_compressed(sig), Identity)
        m == hash_to_curve_g2(msg, as_bytes(dst))
        exp == pairing_product(Neg(p), m, Generator, q)
    IN  IF ~is_on_curve(p)
        THEN Return("InvalidPublicKey", <<"pk_len", "sig_len", "decompress", "on_curve">>)
        ELSE IF is_identity(p)
        THEN Return("InvalidPublicKey", <<"pk_len", "sig_len", "decompress", "on_curve",
                    "not_identity">>)
        ELSE IF msg = <<>>
        THEN Return("EmptyMessage", <<"pk_len", "sig_len", "decompress", "on_curve",
                    "not_identity", "msg_nonempty">>)
        ELSE IF sig = <<>>
        THEN Return("InvalidSignatureLength", <<"pk_len", "sig_len", "decompress",
                    "on_curve", "not_identity", "msg_nonempty", "sig_nonempty">>)
        ELSE IF exp # GtIdentity
        THEN Return("SignatureFailedVerification", <<"pk_len", "sig_len", "decompress",
                    "on_curve", "not_identity", "msg_nonempty", "sig_nonempty",
                    "hash_to_curve", "pairing">>)
        ELSE Return("Ok", <<"pk_len", "sig_len", "decompress", "on_curve", "not_identity",
                    "msg_nonempty", "sig_nonempty", "hash_to_curve", "pairing">>)

\* verify a signature where the public key is on g2 and the signature is on g1
verify_on_g1(pk, msg, sig, dst) ==
    IF ~try_into(pk, G2_COMPRESSED_SIZE)
    THEN Return("InvalidPublicKey", <<"pk_len">>)
    ELSE IF ~try_into(sig, G1_COMPRESSED_SIZE)
    THEN Return("InvalidSignatureLength", <<"pk_len", "sig_len">>)
    ELSE
    LET signature_point == unwrap_or(from_compressed(sig), Identity)
        pubkey_point == unwrap_or(from_compressed(pk), Identity)
        m == hash_to_curve_g1(msg, as_bytes(dst))
        exp == pairing_product(m, Neg(pubkey_point), signature_point, Generator)
    IN  IF ~is_on_curve(pubkey_point)
        THEN Return("InvalidPublicKey", <<"pk_len", "sig_len", "decompress", "on_curve">>)
        ELSE IF is_identity(pubkey_point)
        THEN Return("InvalidPublicKey", <<"pk_len", "sig_len", "decompress", "on_curve",
                    "not_identity">>)
        ELSE IF msg = <<>>
        THEN Return("EmptyMessage", <<"pk_len", "sig_len", "decompress", "on_curve",
                    "not_identity", "msg_nonempty">>)
        ELSE IF sig = <<>>
        THEN Return("InvalidSignatureLength", <<"pk_len", "sig_len", "decompress",
                    "on_curve", "not_identity", "msg_nonempty", "sig_nonempty">>)
        ELSE IF exp # GtIdentity
        THEN Return("SignatureFailedVerification", <<"pk_len", "sig_len", "decompress",
                    "on_curve", "not_identity", "msg_nonempty", "sig_nonempty",
                    "hash_to_curve", "pairing">>)
        ELSE Return("Ok", <<"pk_len", "sig_len", "decompress", "on_curve", "not_identity",
                    "msg_nonempty", "sig_nonempty", "hash_to_curve", "pairing">>)

NoDispatch == [callee |-> "none", message |-> <<>>, dst |-> "none"]

\* the outcome of verify_beacon: its result, the checks it evaluated and the
\* pairing check it dispatched to
Outcome(r, trace, d) == [result |-> r, steps |-> trace, dispatch |-> d]

\* the length of the key looked at before the derivation of the message
Dispatch_key_length_first(callee, pk, m, sig, dst) ==
    IF Len(pk) # (IF callee = "verify_on_g2" THEN G1_COMPRESSED_SIZE ELSE G2_COMPRESSED_SIZE)
    THEN Outcome("InvalidPublicKey", <<"randomness", "pk_len">>, NoDispatch)
    ELSE IF ~m.is_ok
    THEN Outcome(m.err, <<"randomness", "message">>, NoDispatch)
    ELSE LET r == IF callee = "verify_on_g2"
                  THEN verify_on_g2(pk, m.value, sig, dst)
                  ELSE verify_on_g1(pk, m.value, sig, dst)
         IN  Outcome(r.result, <<"randomness", "message">> \o r.steps,
                     [callee |-> callee, message |-> m.value, dst |-> dst])

\* scheme `s` handed to verify_on_g2 / verify_on_g1 (`callee`) with the message
\* `m` (a Result) and the tag `dst`: the `?` returns the error of the derivation
Dispatch(callee, pk, m, sig, dst) ==
    IF ~m.is_ok
    THEN Outcome(m.err, <<"randomness", "message">>, NoDispatch)
    ELSE LET r == IF callee = "verify_on_g2"
                  THEN verify_on_g2(pk, m.value, sig, dst)
                  ELSE verify_on_g1(pk, m.value, sig, dst)
         IN  Outcome(r.result, <<"randomness", "message">> \o r.steps,
                     [callee |-> callee, message |-> m.value, dst |-> dst])

Match(s, pk, b) ==
    CASE s = "PedersenBlsChained" ->
            Dispatch("verify_on_g2", pk, chained_beacon_message(b), b.signature, DST_G2)
      [] s = "PedersenBlsUnchained" ->
            Dispatch("verify_on_g2", pk, unchained_beacon_message(b), b.signature, DST_G2)
      [] s = "UnchainedOnG1" ->
            Dispatch("verify_on_g1", pk, unchained_beacon_message(b), b.signature, DST_G2)
      [] s = "UnchainedOnG1RFC9380" ->
            Dispatch("verify_on_g1", pk, unchained_beacon_message(b), b.signature, DST_G1)

\* the variant kept in src/src/scheme.rs, which has no randomness check
verify_beacon_without_randomness(s, pk, b) ==
    LET o == Match(s, pk, b)
    IN  Outcome(o.result, Tail(o.steps), o.dispatch)

verify_beacon_randomness_last(s, pk, b) ==
    LET o == Match(s, pk, b)
    IN  IF o.result = "Ok" /\ Sha256(b.signature) # b.randomness
        THEN Outcome("InvalidRandomness", Tail(o.steps) \o <<"randomness">>, o.dispatch)
        ELSE Outcome(o.result, Tail(o.steps) \o <<"randomness">>, o.dispatch)

verify_beacon_rfc_tag_on_g1(s, pk, b) ==
    IF Sha256(b.signature) # b.randomness
    THEN Outcome("InvalidRandomness", <<"randomness">>, NoDispatch)
    ELSE IF s = "UnchainedOnG1"
    THEN Dispatch("verify_on_g1", pk, unchained_beacon_message(b), b.signature, DST_G1)
    ELSE Match(s, pk, b)

\* verify a randomness beacon for a given scheme and public key
verify_beacon(s, pk, b) ==
    IF Sha256(b.signature) # b.randomness
    THEN Outcome("InvalidRandomness", <<"randomness">>, NoDispatch)
    ELSE Match(s, pk, b)

----------------------------------------------------------------------------
(* The arguments the calls are made with *)

SecretKeys == 1..MaxSecretKey
Rounds == 1..MaxRound

\* a BLS signature of the network with secret key sk (signature on G2 / on G1)
sign_on_g2(sk, msg, dst) ==
    Compress(Mul(sk, hash_to_curve_g2(msg, as_bytes(dst))), G2_COMPRESSED_SIZE)
sign_on_g1(sk, msg, dst) ==
    Compress(Mul(sk, hash_to_curve_g1(msg, as_bytes(dst))), G1_COMPRESSED_SIZE)

\* the first byte with one flag bit flipped
FlipBit(bytes, bit) ==
    [bytes EXCEPT ![1] = IF (@ \div bit) % 2 = 1 THEN @ - bit ELSE @ + bit]

PreviousSignatures ==
    {<<>>} \cup {Compress(k, G2_COMPRESSED_SIZE) : k \in 1..MaxPrev}

ChainedMessages ==
    {Sha256(p \o to_be_bytes(r)) : p \in PreviousSignatures \ {<<>>}, r \in Rounds}
UnchainedMessages == {Sha256(to_be_bytes(r)) : r \in Rounds}
Messages == {<<>>} \cup ChainedMessages \cup UnchainedMessages

GenuineOnG2 ==
    {sign_on_g2(sk, m, DST_G2) : sk \in SecretKeys, m \in ChainedMessages \cup UnchainedMessages}
GenuineOnG1 ==
    {sign_on_g1(sk, m, dst) : sk \in SecretKeys, m \in UnchainedMessages, dst \in {DST_G1, DST_G2}}

\* signatures of the first network for round 1 with the sign bit flipped (the
\* negated point) and with the compression flag cleared (no point at all)
Forged ==
    LET first == {sign_on_g2(1, Sha256(to_be_bytes(1)), DST_G2),
                  sign_on_g2(1, Sha256(Compress(1, G2_COMPRESSED_SIZE) \o to_be_bytes(1)), DST_G2),
                  sign_on_g1(1, Sha256(to_be_bytes(1)), DST_G1),
                  sign_on_g1(1, Sha256(to_be_bytes(1)), DST_G2)}
    IN  {FlipBit(s, 32) : s \in first} \cup {FlipBit(s, 128) : s \in first}

Signatures ==
    GenuineOnG2 \cup GenuineOnG1 \cup Forged
    \cup {<<>>, Zeros(G1_COMPRESSED_SIZE - 1),
          Compress(Identity, G1_COMPRESSED_SIZE), Compress(Identity, G2_COMPRESSED_SIZE)}

PublicKeysOnG1 == {Compress(Mul(sk, Generator), G1_COMPRESSED_SIZE) : sk \in SecretKeys}
PublicKeysOnG2 == {Compress(Mul(sk, Generator), G2_COMPRESSED_SIZE) : sk \in SecretKeys}

\* valid keys, the empty key, the identity of either group, a key with its
\* first byte corrupted and the uncompressed identity of G2
PublicKeys ==
    PublicKeysOnG1 \cup PublicKeysOnG2
    \cup {<<>>, Compress(Identity, G1_COMPRESSED_SIZE), Compress(Identity, G2_COMPRESSED_SIZE),
          FlipBit(Compress(Generator, G1_COMPRESSED_SIZE), 128),
          FlipBit(Compress(Generator, G2_COMPRESSED_SIZE), 128),
          <<64>> \o Zeros(2 * G2_COMPRESSED_SIZE - 1)}

\* the randomness of a beacon with signature sig: its digest, or the digest
\* with the first byte changed
Randomness(sig) ==
    {Sha256(sig), [Sha256(sig) EXCEPT ![1] = (@ + 16) % 256]}

\* the beacons: every round, signature and previous signature, with the
\* randomness that matches the signature and with one that does not
Beacon ==
    UNION {{[round_number |-> r, randomness |-> h, signature |-> sig,
             previous_signature |-> p] :
                r \in Rounds, h \in Randomness(sig), p \in PreviousSignatures} :
           sig \in Signatures}

NoBeacon == [round_number |-> 0, randomness |-> <<>>, signature |-> <<>>,
             previous_signature |-> <<>>]

\* no deserialization, no parallel call and no fetch is under way
NoDeserialize == input = "none" /\ deserialized = "none"
NoParallel == calls = <<>> /\ thread = <<>> /\ derived = <<>>
NoFetch == url = "none" /\ network = <<>> /\ requests = <<>> /\ fetched = "none"

\* no call of the verifier is under way
NoVerify ==
    /\ scheme_id = "none"
    /\ public_key = <<>>
    /\ beacon = NoBeacon
    /\ message = <<>>
    /\ signature = <<>>
    /\ domain_separation_tag = "none"
    /\ result = "none"
    /\ steps = <<>>
    /\ dispatch = NoDispatch

----------------------------------------------------------------------------
(* The calls *)

Init ==
    /\ pc = "ready"
    /\ NoDeserialize /\ NoParallel /\ NoFetch
    /\ result = "none"
    /\ steps = <<>>
    /\ dispatch = NoDispatch
    /\ public_key \in PublicKeys
    /\ \/ /\ fn = "verify_beacon"
          /\ scheme_id \in SchemeID
          /\ beacon \in Beacon
          /\ message = <<>>
          /\ signature = <<>>
          /\ domain_separation_tag = "none"
       \/ /\ fn \in {"verify_on_g1", "verify_on_g2"}
          /\ scheme_id = "none"
          /\ beacon = NoBeacon
          /\ message \in Messages
          /\ signature \in Signatures
          /\ domain_separation_tag \in {DST_G1, DST_G2}

VerifyBeacon ==
    /\ pc = "ready"
    /\ fn = "verify_beacon"
    /\ LET o == verify_beacon(scheme_id, public_key, beacon)
       IN  /\ result' = o.result
           /\ steps' = o.steps
           /\ dispatch' = o.dispatch
    /\ pc' = "done"
    /\ UNCHANGED <<fn, scheme_id, public_key, beacon, message, signature,
                   domain_separation_tag>>
    /\ UNCHANGED <<deserialize_vars, parallel_vars, fetch_vars>>

VerifyOnG1 ==
    /\ pc = "ready"
    /\ fn = "verify_on_g1"
    /\ LET o == verify_on_g1(public_key, message, signature, domain_separation_tag)
       IN  /\ result' = o.result
           /\ steps' = o.steps
    /\ pc' = "done"
    /\ UNCHANGED <<fn, scheme_id, public_key, beacon, message, signature,
                   domain_separation_tag, dispatch>>
    /\ UNCHANGED <<deserialize_vars, parallel_vars, fetch_vars>>

VerifyOnG2 ==
    /\ pc = "ready"
    /\ fn = "verify_on_g2"
    /\ LET o == verify_on_g2(public_key, message, signature, domain_separation_tag)
       IN  /\ result' = o.result
           /\ steps' = o.steps
    /\ pc' = "done"
    /\ UNCHANGED <<fn, scheme_id, public_key, beacon, message, signature,
                   domain_separation_tag, dispatch>>
    /\ UNCHANGED <<deserialize_vars, parallel_vars, fetch_vars>>

Next == VerifyBeacon \/ VerifyOnG1 \/ VerifyOnG2

Spec == Init /\ [][Next]_vars

----------------------------------------------------------------------------
(* The scheme table and the BLS equation, as the claims state them *)

Done == pc = "done"
BeaconCall == Done /\ fn = "verify_beacon"
DirectCall == Done /\ fn \in {"verify_on_g1", "verify_on_g2"}

Unchained == {"PedersenBlsUnchained", "UnchainedOnG1", "UnchainedOnG1RFC9380"}

SchemeTable ==
    [s \in SchemeID |->
        CASE s = "PedersenBlsChained" ->
                [callee |-> "verify_on_g2", rule |-> "chained", dst |-> DST_G2]
          [] s = "PedersenBlsUnchained" ->
                [callee |-> "verify_on_g2", rule |-> "unchained", dst |-> DST_G2]
          [] s = "UnchainedOnG1" ->
                [callee |-> "verify_on_g1", rule |-> "unchained", dst |-> DST_G2]
          [] s = "UnchainedOnG1RFC9380" ->
                [callee |-> "verify_on_g1", rule |-> "unchained", dst |-> DST_G1]]

KeySize(callee) == IF callee = "verify_on_g2" THEN 48 ELSE 96
SigSize(callee) == IF callee = "verify_on_g2" THEN 96 ELSE 48

\* the message the signers of beacon b committed to under scheme s
SignedMessage(s, b) ==
    IF SchemeTable[s].rule = "chained"
    THEN Sha256(b.previous_signature \o to_be_bytes(b.round_number))
    ELSE Sha256(to_be_bytes(b.round_number))

RandomnessMatches(b) == b.randomness = Sha256(b.signature)

MessageDerivable(s, b) == SchemeTable[s].rule = "chained" => b.previous_signature # <<>>

\* pk is the encoding, of the size the orientation asks for, of a point other
\* than the identity
ValidKey(callee, pk) ==
    /\ Len(pk) = KeySize(callee)
    /\ from_compressed(pk).is_some
    /\ from_compressed(pk).value # Identity

\* the point a signature stands for: the identity when it does not decode
SignaturePoint(sig) == IF from_compressed(sig).is_some THEN from_compressed(sig).value ELSE 0

\* the BLS verification equation e(pk, H(msg)) = e(generator, sig), in the
\* orientation of `callee`
Equation(callee, pk, msg, sig, dst) ==
    LET h == IF callee = "verify_on_g2" THEN hash_to_curve_g2(msg, as_bytes(dst))
                                        ELSE hash_to_curve_g1(msg, as_bytes(dst))
    IN  (from_compressed(pk).value * h) % GroupOrder = SignaturePoint(sig)

\* every check before the pairing passes
WellFormed(callee, pk, msg, sig) ==
    /\ ValidKey(callee, pk)
    /\ Len(sig) = SigSize(callee)
    /\ msg # <<>>

\* the scheme-specific pairing check on (public key, derived message, signature)
PairingCheckHolds(s, pk, b) ==
    /\ MessageDerivable(s, b)
    /\ WellFormed(SchemeTable[s].callee, pk, SignedMessage(s, b), b.signature)
    /\ Equation(SchemeTable[s].callee, pk, SignedMessage(s, b), b.signature,
                SchemeTable[s].dst)

\* the digest and the hash to the curve have no collision on the inputs drawn
NoCollision ==
    /\ \A a, b \in Signatures \cup {p \o to_be_bytes(r) : p \in PreviousSignatures, r \in Rounds} :
          Sha256(a) = Sha256(b) => a = b
    /\ \A a, b \in Messages \ {<<>>}, d1, d2 \in {DST_G1, DST_G2} :
          /\ hash_to_curve_g1(a, as_bytes(d1)) = hash_to_curve_g1(b, as_bytes(d2))
                => a = b /\ d1 = d2
          /\ hash_to_curve_g2(a, as_bytes(d1)) = hash_to_curve_g2(b, as_bytes(d2))
                => a = b /\ d1 = d2

----------------------------------------------------------------------------
(* The claims *)

\* C1: verify_beacon returns Ok if and only if the randomness of the beacon is
\* the SHA-256 digest of its signature and the scheme's pairing check on
\* (public key, derived message, signature) holds; in every other case it
\* returns one of the errors.
C1_AcceptsIffRandomnessAndPairing ==
    BeaconCall =>
        /\ result = "Ok" <=>
              RandomnessMatches(beacon) /\ PairingCheckHolds(scheme_id, public_key, beacon)
        /\ result # "Ok" => result \in VerificationError

C1_Witness ==
    /\ BeaconCall
    /\ scheme_id = "PedersenBlsChained"
    /\ RandomnessMatches(beacon)
    /\ PairingCheckHolds(scheme_id, public_key, beacon)
    /\ result = "Ok"

\* C2: when the randomness differs from the digest of the signature,
\* verify_beacon returns InvalidRandomness whatever the other arguments are,
\* and the randomness check is the only check evaluated: no message is
\* derived and no pairing check is called.
C2_TamperedRandomnessRejectedFirst ==
    BeaconCall /\ ~RandomnessMatches(beacon) =>
        /\ result = "InvalidRandomness"
        /\ steps = <<"randomness">>
        /\ dispatch = NoDispatch

C2_Witness ==
    /\ BeaconCall
    /\ ~RandomnessMatches(beacon)
    /\ public_key = <<>>
    /\ beacon.signature = <<>>
    /\ beacon.previous_signature = <<>>
    /\ scheme_id = "PedersenBlsChained"
    /\ result = "InvalidRandomness"

\* C3: under the three unchained schemes the result of verify_beacon does not
\* depend on previous_signature: the same beacon with any other
\* previous_signature, empty or not, gives the same result.
C3_UnchainedIgnoresPreviousSignature ==
    BeaconCall /\ scheme_id \in Unchained =>
        \A p \in PreviousSignatures \cup {FlipBit(q, 1) : q \in {beacon.signature} \ {<<>>}} :
            verify_beacon(scheme_id, public_key,
                          [beacon EXCEPT !.previous_signature = p]).result = result

C3_Witness ==
    /\ BeaconCall
    /\ scheme_id \in Unchained
    /\ beacon.previous_signature # <<>>
    /\ result = "Ok"

\* C4: under the chained scheme a beacon whose randomness matches and whose
\* previous_signature is empty gives ChainedBeaconNeedsPreviousSignature, and
\* no other scheme returns this error.
C4_ChainedNeedsPreviousSignature ==
    BeaconCall =>
        /\ scheme_id = "PedersenBlsChained" /\ RandomnessMatches(beacon)
              /\ beacon.previous_signature = <<>>
           => result = "ChainedBeaconNeedsPreviousSignature"
        /\ scheme_id # "PedersenBlsChained"
           => result # "ChainedBeaconNeedsPreviousSignature"

C4_Witness ==
    /\ BeaconCall
    /\ scheme_id = "PedersenBlsChained"
    /\ RandomnessMatches(beacon)
    /\ beacon.previous_signature = <<>>
    /\ Len(beacon.signature) = G2_COMPRESSED_SIZE
    /\ public_key \in PublicKeysOnG1
    /\ result = "ChainedBeaconNeedsPreviousSignature"

\* C5: under the chained scheme, when verify_beacon returns Ok, the same beacon
\* with another previous_signature, another round_number or another signature
\* (nothing else changed) is rejected.
C5_ChainedOkBoundToFields ==
    BeaconCall /\ scheme_id = "PedersenBlsChained" /\ result = "Ok" =>
        /\ \A p \in (PreviousSignatures \cup {FlipBit(beacon.previous_signature, 1),
                                              FlipBit(beacon.previous_signature, 32)})
                        \ {beacon.previous_signature} :
              verify_beacon(scheme_id, public_key,
                            [beacon EXCEPT !.previous_signature = p]).result # "Ok"
        /\ \A r \in (Rounds \cup {beacon.round_number + 1, beacon.round_number + 256})
                        \ {beacon.round_number} :
              verify_beacon(scheme_id, public_key,
                            [beacon EXCEPT !.round_number = r]).result # "Ok"
        /\ \A sig \in (Signatures \cup {FlipBit(beacon.signature, 1),
                                        FlipBit(beacon.signature, 32)})
                        \ {beacon.signature} :
              verify_beacon(scheme_id, public_key,
                            [beacon EXCEPT !.signature = sig]).result # "Ok"

C5_Witness ==
    /\ BeaconCall
    /\ scheme_id = "PedersenBlsChained"
    /\ beacon.round_number = 1
    /\ result = "Ok"

\* the pairing check is reached: called directly, or by verify_beacon once the
\* randomness check and the message derivation have passed
PairingReached ==
    \/ DirectCall
    \/ BeaconCall /\ RandomnessMatches(beacon) /\ MessageDerivable(scheme_id, beacon)

Callee == IF fn = "verify_beacon" THEN SchemeTable[scheme_id].callee ELSE fn
CallSignature == IF fn = "verify_beacon" THEN beacon.signature ELSE signature
CallMessage == IF fn = "verify_beacon" THEN SignedMessage(scheme_id, beacon) ELSE message
CallTag == IF fn = "verify_beacon" THEN SchemeTable[scheme_id].dst ELSE domain_separation_tag

\* C7 (as stated): in verify_on_g2 and verify_on_g1, directly or through
\* verify_beacon, a public key of the wrong length, one that does not decode
\* and the identity each give InvalidPublicKey.
C7_InvalidKeyAlwaysInvalidPublicKey ==
    PairingReached /\ ~ValidKey(Callee, public_key) => result = "InvalidPublicKey"

\* C7 (amended): such a key is never accepted; it gives InvalidPublicKey when
\* it has the wrong length or the signature has the required length, and
\* InvalidSignatureLength when the key has the required length and the
\* signature has not.
C7_InvalidKeyRejected ==
    PairingReached /\ ~ValidKey(Callee, public_key) =>
        /\ result # "Ok"
        /\ Len(public_key) # KeySize(Callee) \/ Len(CallSignature) = SigSize(Callee)
              => result = "InvalidPublicKey"
        /\ Len(public_key) = KeySize(Callee) /\ Len(CallSignature) # SigSize(Callee)
              => result = "InvalidSignatureLength"

C7_Witness ==
    /\ BeaconCall
    /\ scheme_id = "PedersenBlsChained"
    /\ RandomnessMatches(beacon)
    /\ beacon.previous_signature # <<>>
    /\ Len(beacon.signature) = G2_COMPRESSED_SIZE
    /\ public_key = Compress(Identity, G1_COMPRESSED_SIZE)
    /\ result = "InvalidPublicKey"

\* C8: with a public key of the required length, a signature whose length is
\* not the one the orientation requires (96 bytes on G2, 48 bytes on G1), the
\* empty signature included, gives InvalidSignatureLength.
C8_WrongSignatureLength ==
    PairingReached /\ Len(public_key) = KeySize(Callee)
                   /\ Len(CallSignature) # SigSize(Callee)
        => result = "InvalidSignatureLength"

C8_Witness ==
    /\ BeaconCall
    /\ scheme_id = "UnchainedOnG1RFC9380"
    /\ RandomnessMatches(beacon)
    /\ beacon.signature = <<>>
    /\ public_key \in PublicKeysOnG2
    /\ result = "InvalidSignatureLength"

\* the signature of beacon b is the one the network with secret key sk makes
\* for it under scheme s
Genuine(s, sk, b) ==
    b.signature = IF SchemeTable[s].callee = "verify_on_g2"
                  THEN sign_on_g2(sk, SignedMessage(s, b), SchemeTable[s].dst)
                  ELSE sign_on_g1(sk, SignedMessage(s, b), SchemeTable[s].dst)

\* the public key of the network with secret key sk under scheme s
KeyOf(s, sk) == Compress(Mul(sk, Generator), KeySize(SchemeTable[s].callee))

\* C9: when every structural check passes and the pairing equation does not
\* hold, the result is SignatureFailedVerification; so it is for a genuine
\* signature checked against another round number, and for one checked
\* against the valid public key of another network.
C9_PairingMismatchFailsVerification ==
    /\ PairingReached /\ WellFormed(Callee, public_key, CallMessage, CallSignature)
                      /\ ~Equation(Callee, public_key, CallMessage, CallSignature, CallTag)
          => result = "SignatureFailedVerification"
    /\ BeaconCall /\ RandomnessMatches(beacon) /\ MessageDerivable(scheme_id, beacon) =>
          /\ \A sk \in SecretKeys, r \in Rounds \ {beacon.round_number} :
                public_key = KeyOf(scheme_id, sk)
                   /\ Genuine(scheme_id, sk, [beacon EXCEPT !.round_number = r])
                => result = "SignatureFailedVerification"
          /\ \A sk \in SecretKeys : \A other \in SecretKeys \ {sk} :
                public_key = KeyOf(scheme_id, other) /\ Genuine(scheme_id, sk, beacon)
                => result = "SignatureFailedVerification"

C9_Witness ==
    /\ BeaconCall
    /\ scheme_id = "PedersenBlsUnchained"
    /\ RandomnessMatches(beacon)
    /\ Genuine(scheme_id, 1, beacon)
    /\ public_key = KeyOf(scheme_id, 2)
    /\ result = "SignatureFailedVerification"

\* the other of the two schemes with the signature on G1
OtherOnG1(s) == IF s = "UnchainedOnG1" THEN "UnchainedOnG1RFC9380" ELSE "UnchainedOnG1"

\* C10: verify_beacon hands each scheme to the pairing check, the message and
\* the tag of the scheme table (UnchainedOnG1 goes with the G2 tag), and a
\* beacon accepted under one of the two schemes with the signature on G1 is
\* not accepted under the other.
C10_DispatchFollowsSchemeTable ==
    BeaconCall =>
        /\ RandomnessMatches(beacon) /\ MessageDerivable(scheme_id, beacon) =>
              dispatch = [callee  |-> SchemeTable[scheme_id].callee,
                          message |-> SignedMessage(scheme_id, beacon),
                          dst     |-> SchemeTable[scheme_id].dst]
        /\ ~(RandomnessMatches(beacon) /\ MessageDerivable(scheme_id, beacon)) =>
              dispatch = NoDispatch
        /\ scheme_id \in {"UnchainedOnG1", "UnchainedOnG1RFC9380"} /\ result = "Ok" =>
              verify_beacon(OtherOnG1(scheme_id), public_key, beacon).result # "Ok"

C10_Witness ==
    /\ BeaconCall
    /\ scheme_id = "UnchainedOnG1"
    /\ dispatch.callee = "verify_on_g1"
    /\ dispatch.dst = DST_G2
    /\ result = "Ok"

\* the pairing e(a, b) and the product of Gt, written out
Pairing(a, b) == (a * b) % GroupOrder
GtMul(x, y) == (x + y) % GroupOrder
Minus(p) == (GroupOrder - p) % GroupOrder

\* M: the hash to the curve of the message under the supplied tag
HashedMessage(callee, msg, dst) ==
    IF callee = "verify_on_g2" THEN hash_to_curve_g2(msg, as_bytes(dst))
                               ELSE hash_to_curve_g1(msg, as_bytes(dst))

\* the secret sk with pk = sk * generator
SecretOf(pk) ==
    CHOOSE sk \in 1..(GroupOrder - 1) : (sk * Generator) % GroupOrder = from_compressed(pk).value

\* C11: for well-formed inputs verify_on_g2 returns Ok exactly when
\* e(-pk, M) * e(G1 generator, sig) is the identity of Gt, and verify_on_g1
\* exactly when e(M, -pk) * e(sig, G2 generator) is; equivalently, exactly
\* when sig = sk * M for the secret sk with pk = sk * generator.
C11_PairingEquationExact ==
    PairingReached /\ WellFormed(Callee, public_key, CallMessage, CallSignature) =>
        LET pk  == from_compressed(public_key).value
            sig == SignaturePoint(CallSignature)
            M   == HashedMessage(Callee, CallMessage, CallTag)
            product == IF Callee = "verify_on_g2"
                       THEN GtMul(Pairing(Minus(pk), M), Pairing(Generator, sig))
                       ELSE GtMul(Pairing(M, Minus(pk)), Pairing(sig, Generator))
        IN  /\ result = "Ok" <=> product = GtIdentity
            /\ result = "Ok" <=>
                  /\ from_compressed(CallSignature).is_some
                  /\ sig = (SecretOf(public_key) * M) % GroupOrder

C11_Witness ==
    /\ DirectCall
    /\ fn = "verify_on_g2"
    /\ WellFormed(fn, public_key, message, signature)
    /\ SecretOf(public_key) = 2
    /\ domain_separation_tag = DST_G2
    /\ result = "Ok"

\* the checks of verify_on_g1 / verify_on_g2 in their mandatory order
CheckOrder == <<"pk_len", "sig_len", "decompress", "on_curve", "not_identity",
                "msg_nonempty", "sig_nonempty", "hash_to_curve", "pairing">>

\* the error a failing check gives (decompression and hashing give none)
ErrorOf(check) ==
    CASE check \in {"pk_len", "on_curve", "not_identity"} -> "InvalidPublicKey"
      [] check \in {"sig_len", "sig_nonempty"} -> "InvalidSignatureLength"
      [] check = "msg_nonempty" -> "EmptyMessage"
      [] check = "pairing" -> "SignatureFailedVerification"
      [] OTHER -> "none"

\* the point the key stands for once decompressed: the identity when it does
\* not decode
KeyPoint == IF from_compressed(public_key).is_some THEN from_compressed(public_key).value
            ELSE Identity

\* the check passes on the arguments of the pairing check of this call
Passes(check) ==
    CASE check = "pk_len" -> Len(public_key) = KeySize(Callee)
      [] check = "sig_len" -> Len(CallSignature) = SigSize(Callee)
      [] check = "on_curve" -> KeyPoint \in 0..(GroupOrder - 1)
      [] check = "not_identity" -> KeyPoint # Identity
      [] check = "msg_nonempty" -> Len(CallMessage) > 0
      [] check = "sig_nonempty" -> Len(CallSignature) > 0
      [] check = "pairing" ->
            Equation(Callee, public_key, CallMessage, CallSignature, CallTag)
      [] OTHER -> TRUE

RECURSIVE FirstFailingFrom(_)
FirstFailingFrom(i) ==
    IF i > Len(CheckOrder) THEN 0
    ELSE IF ~Passes(CheckOrder[i]) THEN i
    ELSE FirstFailingFrom(i + 1)

\* the position of the first check that fails, 0 when every check passes
FirstFailing == FirstFailingFrom(1)

\* the checks the pairing check of this call evaluated
PairingSteps == IF fn = "verify_beacon" THEN SubSeq(steps, 3, Len(steps)) ELSE steps

\* C14: verify_on_g1 and verify_on_g2 apply their nine checks in the mandatory
\* order and the first failing check decides the error: the checks evaluated
\* are the order up to the first failing check and the result is its error.
\* So a key and a signature both of the wrong length give InvalidPublicKey, a
\* right-length key that is the identity or does not decode with a
\* wrong-length signature gives InvalidSignatureLength, and an invalid key
\* with an empty message gives InvalidPublicKey.
C14_ChecksInMandatoryOrder ==
    PairingReached =>
        LET first == FirstFailing
        IN  /\ PairingSteps = SubSeq(CheckOrder, 1, IF first = 0 THEN Len(CheckOrder) ELSE first)
            /\ result = IF first = 0 THEN "Ok" ELSE ErrorOf(CheckOrder[first])
            /\ Len(public_key) # KeySize(Callee) /\ Len(CallSignature) # SigSize(Callee)
                  => result = "InvalidPublicKey"
            /\ Len(public_key) = KeySize(Callee) /\ KeyPoint = Identity
                  /\ Len(CallSignature) # SigSize(Callee)
                  => result = "InvalidSignatureLength"
            /\ ~ValidKey(Callee, public_key) /\ CallMessage = <<>>
                  /\ Len(CallSignature) = SigSize(Callee)
                  => result = "InvalidPublicKey"

C14_Witness ==
    /\ DirectCall
    /\ fn = "verify_on_g2"
    /\ public_key = <<>>
    /\ Len(signature) = G1_COMPRESSED_SIZE
    /\ message = <<>>
    /\ steps = <<"pk_len">>
    /\ result = "InvalidPublicKey"

\* the 8-byte big-endian encoding of a round number below 2^24
RoundBytes(n) == <<0, 0, 0, 0, 0, (n \div 65536) % 256, (n \div 256) % 256, n % 256>>

\* C15: the chained message is SHA-256(previous_signature || 8-byte big-endian
\* round_number) and the unchained message is SHA-256(8-byte big-endian
\* round_number); the derived message is always 32 bytes, so verify_beacon
\* never returns EmptyMessage, and EmptyMessage comes only from a direct call
\* of verify_on_g1 / verify_on_g2 with a zero-length message.
C15_DerivedMessageIsDigest ==
    /\ BeaconCall /\ dispatch # NoDispatch =>
          /\ dispatch.message =
                IF scheme_id = "PedersenBlsChained"
                THEN Sha256(beacon.previous_signature \o RoundBytes(beacon.round_number))
                ELSE Sha256(RoundBytes(beacon.round_number))
          /\ Len(dispatch.message) = 32
    /\ BeaconCall => result # "EmptyMessage"
    /\ Done /\ result = "EmptyMessage" => DirectCall /\ Len(message) = 0

C15_Witness ==
    /\ DirectCall
    /\ fn = "verify_on_g1"
    /\ public_key \in PublicKeysOnG2
    /\ Len(signature) = G1_COMPRESSED_SIZE
    /\ message = <<>>
    /\ result = "EmptyMessage"

\* the points whose encoding can end in the last three bytes of `bytes`
PointsNear(bytes) ==
    LET n == Len(bytes)
        x == bytes[n - 2] * 65536 + bytes[n - 1] * 256 + bytes[n]
    IN  {p \in {Identity, x, GroupOrder - x} : p \in 0..(GroupOrder - 1)}

\* `bytes` is the compressed encoding of a point
IsEncoding(bytes) == \E p \in PointsNear(bytes) : Compress(p, Len(bytes)) = bytes

\* C16: with a valid public key and a non-empty message, a signature of the
\* required length that is the encoding of no point gives
\* SignatureFailedVerification, the result the identity of its group gives in
\* its place; and so does a right-length signature that is a valid signature
\* with its sign bit flipped.
C16_MalformedSignatureNeverAccepted ==
    PairingReached /\ ValidKey(Callee, public_key) /\ Len(CallMessage) > 0
                   /\ Len(CallSignature) = SigSize(Callee) =>
        /\ ~IsEncoding(CallSignature) =>
              /\ result = "SignatureFailedVerification"
              /\ result = (IF Callee = "verify_on_g2"
                           THEN verify_on_g2(public_key, CallMessage,
                                    Compress(Identity, G2_COMPRESSED_SIZE), CallTag)
                           ELSE verify_on_g1(public_key, CallMessage,
                                    Compress(Identity, G1_COMPRESSED_SIZE), CallTag)).result
        /\ IsEncoding(FlipBit(CallSignature, 32))
              /\ Equation(Callee, public_key, CallMessage, FlipBit(CallSignature, 32), CallTag)
           => result = "SignatureFailedVerification"

C16_Witness ==
    /\ BeaconCall
    /\ scheme_id = "PedersenBlsUnchained"
    /\ RandomnessMatches(beacon)
    /\ public_key = KeyOf(scheme_id, 1)
    /\ beacon.signature = FlipBit(sign_on_g2(1, SignedMessage(scheme_id, beacon), DST_G2), 128)
    /\ result = "SignatureFailedVerification"

\* the pairing check of the scheme table on the arguments of this call
PairingCheck ==
    IF Callee = "verify_on_g2"
    THEN verify_on_g2(public_key, CallMessage, CallSignature, CallTag)
    ELSE verify_on_g1(public_key, CallMessage, CallSignature, CallTag)

\* C17: verify_beacon decides InvalidRandomness first; then, for the chained
\* scheme only, the derivation of the message, so that a chained beacon with
\* matching randomness and an empty previous_signature gives
\* ChainedBeaconNeedsPreviousSignature whatever the key and the signature are,
\* no check of them being evaluated; only then the checks of verify_on_g1 /
\* verify_on_g2 apply.  Every call returns Ok or one of the six errors.
C17_ErrorPrecedence ==
    /\ Done => result \in {"Ok"} \cup VerificationError
    /\ Cardinality(VerificationError) = 6
    /\ BeaconCall =>
          /\ ~RandomnessMatches(beacon) =>
                result = "InvalidRandomness" /\ steps = <<"randomness">>
          /\ RandomnessMatches(beacon) /\ ~MessageDerivable(scheme_id, beacon) =>
                /\ scheme_id = "PedersenBlsChained"
                /\ result = "ChainedBeaconNeedsPreviousSignature"
                /\ steps = <<"randomness", "message">>
          /\ RandomnessMatches(beacon) /\ MessageDerivable(scheme_id, beacon) =>
                /\ result = PairingCheck.result
                /\ steps = <<"randomness", "message">> \o PairingCheck.steps

C17_Witness ==
    /\ BeaconCall
    /\ scheme_id = "PedersenBlsChained"
    /\ RandomnessMatches(beacon)
    /\ beacon.previous_signature = <<>>
    /\ public_key = <<>>
    /\ Len(beacon.signature) = G1_COMPRESSED_SIZE - 1
    /\ result = "ChainedBeaconNeedsPreviousSignature"

----------------------------------------------------------------------------
(* impl Deserialize for SchemeID (src/src/verify.rs) *)

MaxWords == 4       \* words of a drawn tag

\* the words the accepted tags are made of
Words == {"pedersen", "bls", "chained", "unchained", "on", "g1", "rfc9380"}

\* the strings made of n words with a hyphen between them
RECURSIVE Hyphenated(_)
Hyphenated(n) ==
    IF n = 1 THEN Words
    ELSE {t \o "-" \o w : t \in Hyphenated(n - 1), w \in Words}

\* the strings handed to the deserializer: every hyphenated string of up to
\* MaxWords words, the accepted tags in other spellings and the empty string
Tags ==
    UNION {Hyphenated(n) : n \in 1..MaxWords}
    \cup {"", "PedersenBlsChained", "PEDERSEN-BLS-CHAINED", "pedersen_bls_chained",
          "pedersen-bls-chained ", " pedersen-bls-unchained", "bls-unchained-on-g2",
          "bls-unchained-g1-rfc9380-", "UnchainedOnG1RFC9380"}

\* what the deserializer holds: a string, or a value that is no string
Inputs ==
    {[kind |-> "str", value |-> t] : t \in Tags}
    \cup {[kind |-> k, value |-> ""] : k \in {"u64", "null", "seq"}}

\* the accepted values, as listed in the error
VARIANTS == <<"pedersen-bls-chained", "pedersen-bls-unchained", "bls-unchained-on-g1",
              "bls-unchained-g1-rfc9380">>

\* serde::de::Error::unknown_variant and the error of a value that is no string
unknown_variant(s, expected) ==
    [kind |-> "unknown_variant", variant |-> s, expected |-> expected]
invalid_type(d) == [kind |-> "invalid_type", variant |-> d.kind, expected |-> <<"str">>]

\* the match without the arm of the RFC 9380 scheme
deserialize_without_rfc9380(d) ==
    IF d.kind # "str" THEN Err(invalid_type(d))
    ELSE LET s == d.value
         IN  CASE s = "pedersen-bls-chained" -> Ok("PedersenBlsChained")
               [] s = "pedersen-bls-unchained" -> Ok("PedersenBlsUnchained")
               [] s = "bls-unchained-on-g1" -> Ok("UnchainedOnG1")
               [] OTHER -> Err(unknown_variant(s, SubSeq(VARIANTS, 1, 3)))

deserialize(d) ==
    IF d.kind # "str" THEN Err(invalid_type(d))
    ELSE LET s == d.value
         IN  CASE s = "pedersen-bls-chained" -> Ok("PedersenBlsChained")
               [] s = "pedersen-bls-unchained" -> Ok("PedersenBlsUnchained")
               [] s = "bls-unchained-on-g1" -> Ok("UnchainedOnG1")
               [] s = "bls-unchained-g1-rfc9380" -> Ok("UnchainedOnG1RFC9380")
               [] OTHER -> Err(unknown_variant(s, VARIANTS))

InitDeserialize ==
    /\ pc = "ready"
    /\ fn = "deserialize"
    /\ input \in Inputs
    /\ deserialized = "none"
    /\ NoVerify /\ NoParallel /\ NoFetch

Deserialize ==
    /\ pc = "ready"
    /\ fn = "deserialize"
    /\ deserialized' = deserialize(input)
    /\ pc' = "done"
    /\ UNCHANGED <<fn, input, verify_vars, parallel_vars, fetch_vars>>

NextDeserialize == Deserialize

SpecDeserialize == InitDeserialize /\ [][NextDeserialize]_vars

\* the wire tag of each scheme
TagOf ==
    [v \in SchemeID |->
        CASE v = "PedersenBlsChained" -> "pedersen-bls-chained"
          [] v = "PedersenBlsUnchained" -> "pedersen-bls-unchained"
          [] v = "UnchainedOnG1" -> "bls-unchained-on-g1"
          [] v = "UnchainedOnG1RFC9380" -> "bls-unchained-g1-rfc9380"]

\* C12: deserializing a scheme identifier maps the four tags to their four
\* variants, distinct tags to distinct variants, and rejects every other
\* string with an unknown-variant error that lists the four accepted values.
C12_DeserializeMapsFourTags ==
    /\ \A v, w \in SchemeID : TagOf[v] = TagOf[w] => v = w
    /\ pc = "done" /\ fn = "deserialize" /\ input.kind = "str" =>
          /\ \A v \in SchemeID : input.value = TagOf[v] => deserialized = Ok(v)
          /\ (\A v \in SchemeID : input.value # TagOf[v]) =>
                /\ ~deserialized.is_ok
                /\ deserialized.err.kind = "unknown_variant"
                /\ deserialized.err.variant = input.value
                /\ Len(deserialized.err.expected) = Cardinality(SchemeID)
                /\ {deserialized.err.expected[i] : i \in 1..Len(deserialized.err.expected)}
                      = {TagOf[v] : v \in SchemeID}

C12_Witness ==
    /\ pc = "done"
    /\ fn = "deserialize"
    /\ input = [kind |-> "str", value |-> "bls-unchained-g1-rfc9380"]
    /\ deserialized = Ok("UnchainedOnG1RFC9380")

----------------------------------------------------------------------------
(* verify_beacon called from several threads at once (src/src/verify.rs) *)

MaxThreads == 2     \* threads that call verify_beacon at the same time

Threads == 1..MaxThreads

\* the beacon of round 1 of the first network under scheme s, as published
Published(s) ==
    LET unsigned == [round_number |-> 1, randomness |-> <<>>, signature |-> <<>>,
                     previous_signature |-> Compress(1, G2_COMPRESSED_SIZE)]
        sig == IF s \in {"PedersenBlsChained", "PedersenBlsUnchained"}
               THEN sign_on_g2(1, SignedMessage(s, unsigned), DST_G2)
               ELSE sign_on_g1(1, SignedMessage(s, unsigned),
                               IF s = "UnchainedOnG1" THEN DST_G2 ELSE DST_G1)
    IN  [unsigned EXCEPT !.signature = sig, !.randomness = Sha256(sig)]

\* the arguments a thread may be given: for each scheme the key of the first
\* network with the published beacon, the beacon with its randomness changed
\* and the beacon without its previous signature
ParallelCalls ==
    UNION {{[scheme_id |-> s, public_key |-> KeyOf(s, 1), beacon |-> b] :
                b \in {Published(s),
                       [Published(s) EXCEPT !.randomness = [@ EXCEPT ![1] = (@ + 16) % 256]],
                       [Published(s) EXCEPT !.previous_signature = <<>>]}} :
           s \in SchemeID}

\* the derived message kept in one buffer for all calls
static_buffer(t) == 1

\* the owner of the derived message of call t: the call itself
local(t) == t

InitParallel ==
    /\ pc = "ready"
    /\ fn = "verify_beacon"
    /\ calls \in [Threads -> ParallelCalls]
    /\ thread = [t \in Threads |-> [pc |-> "start", result |-> "none"]]
    /\ derived = [t \in Threads |-> <<>>]
    /\ NoVerify /\ NoDeserialize /\ NoFetch

Returns(t, r) == thread' = [thread EXCEPT ![t] = [pc |-> "done", result |-> r]]

\* pc is "done" once every call has returned
Joined == pc' = IF \A t \in Threads : thread'[t].pc = "done" THEN "done" ELSE "ready"

\* the randomness check of call t
CheckRandomness(t) ==
    /\ thread[t].pc = "start"
    /\ IF Sha256(calls[t].beacon.signature) # calls[t].beacon.randomness
       THEN Returns(t, "InvalidRandomness")
       ELSE thread' = [thread EXCEPT ![t].pc = "matched"]
    /\ Joined
    /\ UNCHANGED <<fn, calls, derived, verify_vars, deserialize_vars, fetch_vars>>

\* the message of call t, derived by the rule of its scheme
DeriveMessage(t) ==
    /\ thread[t].pc = "matched"
    /\ LET m == IF calls[t].scheme_id = "PedersenBlsChained"
                THEN chained_beacon_message(calls[t].beacon)
                ELSE unchained_beacon_message(calls[t].beacon)
       IN  IF ~m.is_ok
           THEN Returns(t, m.err) /\ UNCHANGED derived
           ELSE /\ derived' = [derived EXCEPT ![local(t)] = m.value]
                /\ thread' = [thread EXCEPT ![t].pc = "derived"]
    /\ Joined
    /\ UNCHANGED <<fn, calls, verify_vars, deserialize_vars, fetch_vars>>

\* the pairing check of call t on its derived message
CallPairing(t) ==
    /\ thread[t].pc = "derived"
    /\ LET s   == calls[t].scheme_id
           pk  == calls[t].public_key
           sig == calls[t].beacon.signature
           m   == derived[local(t)]
           r   == CASE s = "PedersenBlsChained" -> verify_on_g2(pk, m, sig, DST_G2)
                    [] s = "PedersenBlsUnchained" -> verify_on_g2(pk, m, sig, DST_G2)
                    [] s = "UnchainedOnG1" -> verify_on_g1(pk, m, sig, DST_G2)
                    [] s = "UnchainedOnG1RFC9380" -> verify_on_g1(pk, m, sig, DST_G1)
       IN  Returns(t, r.result)
    /\ Joined
    /\ UNCHANGED <<fn, calls, derived, verify_vars, deserialize_vars, fetch_vars>>

NextParallel ==
    \E t \in Threads : CheckRandomness(t) \/ DeriveMessage(t) \/ CallPairing(t)

SpecParallel == InitParallel /\ [][NextParallel]_vars

\* the result of the call of thread t when it runs alone
Alone(t) == verify_beacon(calls[t].scheme_id, calls[t].public_key, calls[t].beacon).result

\* C13: any number of verify_beacon calls may run in parallel: under every
\* interleaving each call returns the result it returns when run alone, and
\* no step of a call changes the scheme, the key or the beacon a call was given.
C13_ParallelCallsIndependent ==
    /\ [](\A t \in Threads : thread[t].pc = "done" => thread[t].result = Alone(t))
    /\ [][calls' = calls]_vars

C13_Witness ==
    /\ thread[1].pc = "done"
    /\ thread[1].result = "Ok"
    /\ calls[1].scheme_id = "PedersenBlsChained"
    /\ thread[2].pc = "derived"
    /\ calls[2].scheme_id = "UnchainedOnG1"
    /\ derived[1] # derived[2]

----------------------------------------------------------------------------
(* impl Transport for HttpTransport (src/src/http.rs) *)

MaxRequests == 2    \* requests whose outcome the network has ready

OK == 200           \* StatusCode::OK
NOT_FOUND == 404    \* StatusCode::NOT_FOUND

TransportError == {"NotFound", "Unexpected"}

Urls == {"https://api.drand.sh/public/latest", "https://api.drand.sh/public/1"}

StatusCodes == {OK, 201, 204, 301, 400, NOT_FOUND, 500, 503}

Bodies == {"", "{\"round\":1}"}

\* what one request can come to: the request is not sent or gets no answer,
\* or a response arrives whose body can or cannot be read as text
Outcomes ==
    {[kind |-> "error", status |-> 0, body |-> "", readable |-> FALSE]}
    \cup {[kind |-> "response", status |-> c, body |-> b, readable |-> TRUE] :
            c \in StatusCodes, b \in Bodies}
    \cup {[kind |-> "response", status |-> c, body |-> "", readable |-> FALSE] :
            c \in StatusCodes}

\* every successful status taken for OK
fetch_any_success(u, net) ==
    LET res == net[1]
    IN  [requests |-> <<u>>,
         result |->
            IF res.kind = "error" THEN Err("Unexpected")
            ELSE CASE res.status \in 200..299 ->
                        IF res.readable THEN Ok(res.body) ELSE Err("Unexpected")
                   [] res.status = NOT_FOUND -> Err("NotFound")
                   [] OTHER -> Err("Unexpected")]

\* fetch(&self, url): the requests it sends and the Result it returns, `net`
\* being the outcomes of successive requests
fetch(u, net) ==
    LET res == net[1]
    IN  [requests |-> <<u>>,
         result |->
            IF res.kind = "error" THEN Err("Unexpected")
            ELSE CASE res.status = OK ->
                        IF res.readable THEN Ok(res.body) ELSE Err("Unexpected")
                   [] res.status = NOT_FOUND -> Err("NotFound")
                   [] OTHER -> Err("Unexpected")]

InitFetch ==
    /\ pc = "ready"
    /\ fn = "fetch"
    /\ url \in Urls
    /\ network \in [1..MaxRequests -> Outcomes]
    /\ requests = <<>>
    /\ fetched = "none"
    /\ NoVerify /\ NoDeserialize /\ NoParallel

Fetch ==
    /\ pc = "ready"
    /\ fn = "fetch"
    /\ LET o == fetch(url, network)
       IN  /\ requests' = o.requests
           /\ fetched' = o.result
    /\ pc' = "done"
    /\ UNCHANGED <<fn, url, network, verify_vars, deserialize_vars, parallel_vars>>

NextFetch == Fetch

SpecFetch == InitFetch /\ [][NextFetch]_vars

\* the Result is the error e
Fails(r, e) == ~r.is_ok /\ r.err = e

\* C18: HttpTransport::fetch maps the outcome of one GET request to one
\* result: a request that cannot be sent gives Unexpected; status 200 gives
\* Ok(body), or Unexpected when the body cannot be read; status 404 gives
\* NotFound; every other status gives Unexpected.  One request is sent, with
\* no retry, and Ok is returned only for status 200.
C18_FetchMapsOutcome ==
    pc = "done" /\ fn = "fetch" =>
        LET sent == network[1]
        IN  /\ requests = <<url>>
            /\ sent.kind = "error" => Fails(fetched, "Unexpected")
            /\ sent.kind = "response" /\ sent.status = 200 /\ sent.readable =>
                  fetched.is_ok /\ fetched.value = sent.body
            /\ sent.kind = "response" /\ sent.status = 200 /\ ~sent.readable =>
                  Fails(fetched, "Unexpected")
            /\ sent.kind = "response" /\ sent.status = 404 => Fails(fetched, "NotFound")
            /\ sent.kind = "response" /\ sent.status \notin {200, 404} =>
                  Fails(fetched, "Unexpected")
            /\ fetched.is_ok => sent.kind = "response" /\ sent.status = 200
            /\ ~fetched.is_ok => fetched.err \in TransportError

C18_Witness ==
    /\ pc = "done"
    /\ fn = "fetch"
    /\ network[1].kind = "error"
    /\ network[2].kind = "response"
    /\ network[2].status = 200
    /\ network[2].readable
    /\ requests = <<url>>
    /\ Fails(fetched, "Unexpected")

====
